---- MODULE Spec2Model ----
(***************************************************************************)
(* A model of DRS (Diff Review System): src/drs/main.py, src/drs/context.py *)
(* and src/drs/reviewer.py.                                                 *)
(*                                                                          *)
(* Strings the program only passes around are modelled as TLA+ strings;     *)
(* strings it builds or takes apart (the gathered diff, the review text)    *)
(* are modelled as sequences of their pieces, so that strip(), split() and  *)
(* the regular expression are computed on a structure and not assumed.      *)
(***************************************************************************)
EXTENDS Integers, Sequences, FiniteSets, TLC

VARIABLES
    entry,          \* which entry point runs: main.py main() or reviewer.py run_review()
    args,           \* the parsed command line (argparse Namespace)
    env,            \* the process environment (the CI variables)
    pc,             \* position of the run in the entry point's body
    context_type,   \* determine_review_context's first result
    mr_id,          \* determine_review_context's second result
    detailed_type,  \* get_detailed_context_info's first result (run_review only)
    context_info,   \* get_detailed_context_info's second result (run_review only)
    output_format,  \* the resolved output format
    glab_calls,     \* history: the glab invocations made, each with its outcome
    mr_info,        \* main(): get_mr_info's result
    diff_content,   \* main(): the gathered diff
    all_messages,   \* the messages collected from the agent so far
    final_review,   \* the extracted final review
    output_content, \* what is written to the file or to stdout
    written_to,     \* where it was written: a path or "stdout"
    steps,          \* history: the pipeline steps the run has started, in order
    printed,        \* history: the user-visible messages printed so far
    exit_status,    \* how the process ended (NONE while it runs)
    git,            \* get_local_git_diff: what the git commands and the file reads yield
    gd,             \* get_local_git_diff: its result
    review_text,    \* parse_text_review_to_gitlab_json: its input, as a sequence of lines
    findings        \* parse_text_review_to_gitlab_json: its result

ctxVars   == <<entry, args, env, pc, context_type, mr_id,
               detailed_type, context_info, output_format>>
mainVars  == <<glab_calls, mr_info, diff_content, all_messages, final_review,
               output_content, written_to, steps, printed, exit_status>>
diffVars  == <<git, gd>>
parseVars == <<review_text, findings>>
vars      == <<ctxVars, mainVars, diffVars, parseVars>>

\* Python's None, and the value of a variable no step has assigned yet.
NONE == "~None~"

\* What a variable holds before a step assigns it, for the variables that
\* hold a text, a list of pieces, a list of findings or a result record.
UnsetText     == <<[k |-> "~unset~", v |-> <<>>, nl |-> TRUE]>>
UnsetPieces   == <<NONE>>
UnsetFindings == <<[unset |-> TRUE]>>
UnsetResult   == [status |-> "unset", diff_content |-> UnsetPieces, commands |-> <<>>]

\* Python truthiness of an Optional[str]: None and "" are falsy.
Truthy(v) == v # NONE /\ v # ""

(***************************************************************************)
(* Inputs: command line and environment.                                    *)
(***************************************************************************)
\* src/drs/main.py:17-28. --mr-id takes any string, the empty one included.
MrIdArgs   == {NONE, "", "7"}
FormatArgs == {"text", "gitlab-json", "auto"}
OutputArgs == {NONE, "out.json"}
ArgsSet    == [local: BOOLEAN, mr_id: MrIdArgs, format: FormatArgs, output: OutputArgs]

\* os.getenv yields None for an unset variable and "" for one set to nothing.
EnvSet == [CI: {NONE, "", "true"},
           CI_PIPELINE_SOURCE: {NONE, "push", "merge_request_event"},
           CI_MERGE_REQUEST_ID: {NONE, "", "42"}]

Entries == {"main", "run_review"}

(***************************************************************************)
(* Context detection.                                                       *)
(***************************************************************************)
detect_context(e) ==
    [is_ci |-> Truthy(e.CI),
     is_mr |-> e.CI_PIPELINE_SOURCE = "merge_request_event",
     mr_id |-> e.CI_MERGE_REQUEST_ID]

\* Mutant: the explicit --mr-id is consulted before the CI variables.
determine_review_context_MrIdFirst(a, e) ==
    LET context == detect_context(e) IN
    IF a.local THEN <<"local", NONE>>
    ELSE IF Truthy(a.mr_id) THEN <<"mr", a.mr_id>>
    ELSE IF context.is_mr /\ Truthy(context.mr_id) THEN <<"mr", context.mr_id>>
    ELSE <<"local", NONE>>

\* context.py's copy, used by run_review.
determine_review_context(a, e) ==
    LET context == detect_context(e) IN
    IF a.local THEN <<"local", NONE>>
    ELSE IF context.is_mr /\ Truthy(context.mr_id) THEN <<"mr", context.mr_id>>
    ELSE IF Truthy(a.mr_id) THEN <<"mr", a.mr_id>>
    ELSE <<"local", NONE>>

\* main.py's copy, used by main().
main_determine_review_context(a, e) ==
    LET context == detect_context(e) IN
    IF a.local THEN <<"local", NONE>>
    ELSE IF context.is_mr /\ Truthy(context.mr_id) THEN <<"mr", context.mr_id>>
    ELSE IF Truthy(a.mr_id) THEN <<"mr", a.mr_id>>
    ELSE <<"local", NONE>>

\* context_info is a dict; the branch and project keys of the mr_ci case are
\* copied from the environment unchanged and are left out.
get_detailed_context_info(raw_context_type, id, context) ==
    IF raw_context_type = "local" THEN <<"local", [mr_id |-> NONE, has_mr_id |-> FALSE]>>
    ELSE IF raw_context_type = "mr" /\ context.is_ci /\ context.is_mr
         THEN <<"mr_ci", [mr_id |-> context.mr_id, has_mr_id |-> TRUE]>>
    ELSE IF raw_context_type = "mr"
         THEN <<"mr_local", [mr_id |-> id, has_mr_id |-> TRUE]>>
    ELSE <<"local", [mr_id |-> NONE, has_mr_id |-> FALSE]>>

\* Mutant: auto keys on the merge-request event instead of CI.
resolve_output_format_OnMr(format, context) ==
    IF format = "auto"
    THEN IF context.is_mr THEN "gitlab-json" ELSE "text"
    ELSE format

resolve_output_format(format, context) ==
    IF format = "auto"
    THEN IF context.is_ci THEN "gitlab-json" ELSE "text"
    ELSE format

(***************************************************************************)
(* Review text and the findings parser (main.py:172-216).                   *)
(*                                                                          *)
(* A review text is a sequence of lines, each ended by "\n".  A line is a   *)
(* record [k, v]: k is the marker the line starts with and v its fields.    *)
(*   "H"  ### SEV - title            v = <<SEV, title>>                     *)
(*   "F"  **File:** `path` (line N)  v = <<path, N>>                        *)
(*   "C"  **Category:** text         v = <<text>>                           *)
(*   "D"  **Description:** text      v = <<text>>                           *)
(*   "R"  **Recommendation:** text   v = <<text>>                           *)
(*   "K"  **Confidence:** text       v = <<text>>                           *)
(*   "X"  an empty line              v = <<>>                               *)
(*   "P"  a line of prose            v = <<text>>                           *)
(* nl tells whether the line is ended by "\n": every line is, but the last  *)
(* line of a text may not be.  Field texts are non-empty and hold no        *)
(* newline and no marker.                                                   *)
(***************************************************************************)
Line(k, v) == [k |-> k, v |-> v, nl |-> TRUE]
BlankLine  == Line("X", <<>>)

SeverityTokens == {"CRITICAL", "MAJOR", "MINOR", "SUGGESTION"}

\* Whether the literal of issue_pattern named by `what` matches at line x.
\* "FC" is "` (line N)\n**Category:** ": the end of a File line with a
\* Category line right after it.  "K" is "\n**Confidence:** (.+?)\n": a
\* Confidence line that is ended by a newline.
LiteralAt(lines, x, what) ==
    CASE what = "H"  -> lines[x].k = "H" /\ lines[x].v[1] \in SeverityTokens
      [] what = "FC" -> lines[x].k = "F" /\ x + 1 <= Len(lines) /\ lines[x + 1].k = "C"
      [] what = "K"  -> lines[x].k = "K" /\ lines[x].nl
      [] OTHER       -> lines[x].k = what

\* First index in from..Len(lines) where the literal matches, 0 when there is none.
RECURSIVE FirstFrom(_, _, _)
FirstFrom(lines, from, what) ==
    IF from > Len(lines) THEN 0
    ELSE IF LiteralAt(lines, from, what) THEN from
    ELSE FirstFrom(lines, from + 1, what)

\* A captured group: the text `own` on the line where the group starts, the
\* whole lines `extra` that (.+?) ran over under re.DOTALL, and `tail`, the
\* part of a last line it ended in ("" when it ended at a line's end).
Capture(own, extra, tail) == [own |-> own, extra |-> extra, tail |-> tail]
Plain(text) == Capture(text, <<>>, "")

Lines(lines, a, b) == [x \in 1..(b - a + 1) |-> lines[a + x - 1]]

\* One attempt of issue_pattern at the header line i: each lazy group ends at
\* the first place where the literal that follows it matches.  <<>> when the
\* pattern does not match from i, else <<match, index of its last line>>.
MatchAt(lines, i) ==
    LET j == FirstFrom(lines, i + 1, "F")
        k == IF j = 0 THEN 0 ELSE FirstFrom(lines, j, "FC")
        d == IF k = 0 THEN 0 ELSE FirstFrom(lines, k + 2, "D")
        r == IF d = 0 THEN 0 ELSE FirstFrom(lines, d + 1, "R")
        q == IF r = 0 THEN 0 ELSE FirstFrom(lines, r + 1, "K")
    IN  IF q = 0 THEN <<>>
        ELSE <<[severity       |-> lines[i].v[1],
                title          |-> Capture(lines[i].v[2], Lines(lines, i + 1, j - 1), ""),
                file_path      |-> IF k = j THEN Plain(lines[j].v[1])
                                   ELSE Capture(lines[j].v[1],
                                                <<Line("F-tail", <<lines[j].v[2]>>)>>
                                                    \o Lines(lines, j + 1, k - 1),
                                                lines[k].v[1]),
                line_num       |-> lines[k].v[2],
                category       |-> Capture(lines[k + 1].v[1], Lines(lines, k + 2, d - 1), ""),
                description    |-> Capture(lines[d].v[1], Lines(lines, d + 1, r - 1), ""),
                recommendation |-> Capture(lines[r].v[1], Lines(lines, r + 1, q - 1), ""),
                confidence     |-> Plain(lines[q].v[1])],
               q>>

\* re.findall: the leftmost match from pos, then on from its end.
RECURSIVE FindAll(_, _)
FindAll(lines, pos) ==
    LET i == FirstFrom(lines, pos, "H")
    IN  IF i = 0 THEN <<>>
        ELSE LET m == MatchAt(lines, i)
             IN  IF m = <<>> THEN FindAll(lines, i + 1)
                 ELSE <<m[1]>> \o FindAll(lines, m[2] + 1)

\* str.strip() of a captured group.  Field texts have no white space at their
\* ends, so what strip() removes is the empty lines a group ends in.
RECURSIVE DropTrailingBlank(_)
DropTrailingBlank(ls) ==
    IF ls # <<>> /\ ls[Len(ls)] = BlankLine
    THEN DropTrailingBlank(SubSeq(ls, 1, Len(ls) - 1))
    ELSE ls

Strip(c) == IF c.tail = "" THEN Capture(c.own, DropTrailingBlank(c.extra), "") ELSE c

\* hashlib.md5(...).hexdigest(): 32 hexadecimal digits of the content, taken
\* here as an ideal digest (equal contents, equal digests; no collisions).
Md5HexDigits == 32
Md5Hex(content) == [md5 |-> content, digits |-> Md5HexDigits]

generate_fingerprint(file_path, line, description) ==
    Md5Hex(<<file_path, ":", line, ":", description>>)

severity_mapping ==
    [CRITICAL |-> "blocker", MAJOR |-> "major", MINOR |-> "minor", SUGGESTION |-> "info"]

\* severity_mapping.get(severity, 'info')
SeverityOf(severity) ==
    IF severity \in DOMAIN severity_mapping THEN severity_mapping[severity] ELSE "info"

\* int() of the digits the model uses as line numbers.
LineNumbers == {"1", "2"}
IntOf(digits) == CASE digits = "1" -> 1 [] digits = "2" -> 2

\* str.replace('|', '_') on the category texts of the model.
ReplaceBar(c) ==
    IF c = Plain("bug|logic") THEN Plain("bug_logic") ELSE c

Finding(m) ==
    LET description    == Strip(m.description)
        recommendation == Strip(m.recommendation)
    IN  [description |-> <<Strip(m.title), " - ", description,
                           " Recommendation: ", recommendation>>,
         check_name  |-> ReplaceBar(Strip(m.category)),
         fingerprint |-> generate_fingerprint(m.file_path, m.line_num, description),
         severity    |-> SeverityOf(m.severity),
         location    |-> [path  |-> Strip(m.file_path),
                          lines |-> [begin |-> IntOf(m.line_num)]]]

parse_text_review_to_gitlab_json(text) ==
    LET matches == FindAll(text, 1)
    IN  [x \in 1..Len(matches) |-> Finding(matches[x])]

(***************************************************************************)
(* The local diff gatherer (main.py:99-161).                                *)
(*                                                                          *)
(* A text the function builds is the sequence of the strings it appends.    *)
(* What git and the file system yield is the record `git`:                  *)
(*   installed    whether the git binary is found                           *)
(*   staged, unstaged, last_commit   the stdout of the three diffs          *)
(*   untracked    the lines of `git ls-files --others`, one file a line:    *)
(*                [name, read], read being what open()/read() of it does    *)
(***************************************************************************)
WhiteSpace == {"", " ", "\n", " \n"}

\* not s.strip(), for a string and for a text built of pieces
BlankStr(s) == s \in WhiteSpace
Blank(pieces) == \A x \in 1..Len(pieces) : BlankStr(pieces[x])

\* The exceptions the inner handler catches (main.py:144).
CaughtReadErrors == {"UnicodeDecodeError", "FileNotFoundError", "PermissionError"}
\* What else open() raises for a listed path: a symlink to a directory, a
\* symlink loop or an I/O error.
OtherReadErrors  == {"IsADirectoryError", "OSError"}
ReadOutcomes     == {"ok"} \cup CaughtReadErrors \cup OtherReadErrors

\* The code fence the file's text is wrapped in: three backquotes, a
\* character a TLA+ string cannot hold.
Fence == "(3 backquotes)"

FileText(name) == "<text of " \o name \o ">"

\* untracked.stdout.strip(): the blank lines at both ends go (the names of
\* the model have no white space at their ends unless they are all blank).
RECURSIVE StripListing(_)
StripListing(files) ==
    IF files = <<>> THEN <<>>
    ELSE IF BlankStr(files[1].name) THEN StripListing(Tail(files))
    ELSE IF BlankStr(files[Len(files)].name)
         THEN StripListing(SubSeq(files, 1, Len(files) - 1))
    ELSE files

\* The loop over untracked_files (main.py:137-145): the pieces appended, and
\* raised, the exception that left the loop ("" when it ran to its end).
RECURSIVE NewFileSections(_)
NewFileSections(files) ==
    IF files = <<>> THEN [pieces |-> <<>>, raised |-> ""]
    ELSE LET f == files[1]
             rest == NewFileSections(Tail(files))
             header == <<"\n## New File: ", f.name, "\n">>
         IN  IF BlankStr(f.name) THEN rest
             ELSE IF f.read = "ok"
                  THEN [pieces |-> header \o <<Fence, "\n", FileText(f.name), "\n", Fence, "\n">>
                                    \o rest.pieces,
                        raised |-> rest.raised]
             ELSE IF f.read \in CaughtReadErrors
                  THEN [pieces |-> header
                                    \o <<"[Binary file or unable to read: ", f.name, "]\n">>
                                    \o rest.pieces,
                        raised |-> rest.raised]
             ELSE [pieces |-> header, raised |-> f.read]

\* The result: status "returned" with the text, or "exit 1" when the outer
\* handler caught an exception; commands are the git commands that ran.
get_local_git_diff(g) ==
    IF ~g.installed
    THEN [status |-> "exit 1", diff_content |-> UnsetPieces, commands |-> <<>>]
    ELSE
    LET listing  == StripListing(g.untracked)
        sections == NewFileSections(listing)
        first3   == <<"git diff --cached", "git diff", "git ls-files">>
        found    == (IF ~BlankStr(g.staged)
                     THEN <<"# Staged Changes\n", g.staged, "\n">> ELSE <<>>)
                 \o (IF ~BlankStr(g.unstaged)
                     THEN <<"# Unstaged Changes\n", g.unstaged, "\n">> ELSE <<>>)
                 \o (IF listing # <<>>
                     THEN <<"# Untracked Files (New Files Added)\n">> \o sections.pieces
                     ELSE <<>>)
    IN  IF listing # <<>> /\ sections.raised # ""
        THEN [status |-> "exit 1", diff_content |-> UnsetPieces, commands |-> first3]
        ELSE IF Blank(found)
        THEN [status |-> "returned",
              diff_content |-> IF ~BlankStr(g.last_commit)
                               THEN <<"# Last Commit Changes\n", g.last_commit>>
                               ELSE found,
              commands |-> Append(first3, "git diff HEAD~1..HEAD")]
        ELSE [status |-> "returned", diff_content |-> found, commands |-> first3]

(***************************************************************************)
(* The final review (main.py:265-276).                                      *)
(*                                                                          *)
(* A message is [kind, content, text]:                                      *)
(*   "str"        a plain string, text                                      *)
(*   "nocontent"  an object with no content attribute                       *)
(*   "content"    an object whose content is a list of blocks, each         *)
(*                [has_text, text]: has_text is hasattr(block, 'text')      *)
(* A text is a review text: a sequence of lines, <<>> being "".             *)
(***************************************************************************)
StrMessage(text)        == [kind |-> "str", content |-> <<>>, text |-> text]
NoContentMessage        == [kind |-> "nocontent", content |-> <<>>, text |-> <<>>]
ContentMessage(content) == [kind |-> "content", content |-> content, text |-> <<>>]
TextBlock(text)         == [has_text |-> TRUE, text |-> text]
ToolUseBlock            == [has_text |-> FALSE, text |-> <<>>]

\* for message in reversed(all_messages): ...; "" when the loop ends unbroken
RECURSIVE FinalReview(_)
FinalReview(messages) ==
    IF messages = <<>> THEN <<>>
    ELSE LET message == messages[Len(messages)]
             before  == SubSeq(messages, 1, Len(messages) - 1)
         IN  IF message.kind = "content" /\ message.content # <<>>
             THEN IF message.content[1].has_text
                  THEN message.content[1].text
                  ELSE FinalReview(before)
             ELSE IF message.kind = "str" THEN message.text
             ELSE FinalReview(before)

(***************************************************************************)
(* Bounds and input sets.                                                   *)
(***************************************************************************)
MaxMessages     == 3    \* messages streamed to the final-review extraction
MaxMainMessages == 2    \* messages streamed in a whole run
MaxUntracked    == 2    \* lines of the untracked-file listing
MaxBlocks       == 2    \* issue blocks of a review text

SeqsUpTo(S, n) == UNION {[1..m -> S] : m \in 0..n}

\* An issue block as the code-review agent writes it, with the line
\* `missing` left out ("" for none), and an empty line after it.
Block(sev, title, path, line, desc, missing) ==
    LET full == <<Line("H", <<sev, title>>), Line("F", <<path, line>>),
                  Line("C", <<"bug|logic">>), Line("D", <<desc>>),
                  Line("R", <<"Use a parameterised query">>), Line("K", <<"High">>)>>
        kept == SelectSeq(full, LAMBDA l : l.k # missing)
    IN  Append(kept, BlankLine)

ReviewA == Block("MAJOR", "SQL injection", "a.py", "1", "Unsanitised input", "")
ReviewB == <<Line("P", <<"Looks good to me.">>)>>
Texts   == {<<>>, ReviewA, ReviewB}

Messages ==
    {StrMessage(ReviewB), NoContentMessage, ContentMessage(<<>>),
     ContentMessage(<<ToolUseBlock>>),
     ContentMessage(<<ToolUseBlock, TextBlock(ReviewA)>>),
     ContentMessage(<<TextBlock(ReviewA), TextBlock(ReviewB)>>)}
    \cup {ContentMessage(<<TextBlock(t)>>) : t \in Texts}

MainMessages ==
    {ContentMessage(<<TextBlock(ReviewA)>>), ContentMessage(<<ToolUseBlock>>)}

FileNames == {"a.py", "img.png", " "}
Files ==
    {[name |-> n, read |-> r] : n \in FileNames \ {" "}, r \in ReadOutcomes}
    \cup {[name |-> " ", read |-> "ok"]}
DiffOutputs == {"", "diff --git a/x b/x"}
GitWorlds ==
    [installed: {TRUE}, staged: DiffOutputs, unstaged: DiffOutputs,
     last_commit: DiffOutputs, untracked: SeqsUpTo(Files, MaxUntracked)]
    \cup {[installed |-> FALSE, staged |-> "", unstaged |-> "", last_commit |-> "",
           untracked |-> <<>>]}
MainGitWorlds ==
    {g \in GitWorlds : g.staged = "" /\ Len(g.untracked) <= 1
                       /\ \A x \in 1..Len(g.untracked) : g.untracked[x].name # "img.png"}

(***************************************************************************)
(* The run: main() of main.py and run_review() of reviewer.py.              *)
(***************************************************************************)
Exit(status, message) ==
    /\ exit_status' = status
    /\ printed' = IF message = "" THEN printed ELSE Append(printed, message)
    /\ pc' = "done"

\* main.py:222-223
MainDetermineContext ==
    /\ entry = "main" /\ pc = "start"
    /\ LET r == main_determine_review_context(args, env)
       IN  context_type' = r[1] /\ mr_id' = r[2]
    /\ steps' = Append(steps, "context")
    /\ pc' = "format"
    /\ UNCHANGED <<entry, args, env, detailed_type, context_info, output_format>>
    /\ UNCHANGED <<glab_calls, mr_info, diff_content, all_messages, final_review,
                   output_content, written_to, printed, exit_status>>
    /\ UNCHANGED <<diffVars, parseVars>>

\* main.py:225-231
MainResolveFormat ==
    /\ entry = "main" /\ pc = "format"
    /\ output_format' = resolve_output_format(args.format, detect_context(env))
    /\ printed' = Append(printed, "Output format")
    /\ pc' = "gather"
    /\ UNCHANGED <<entry, args, env, context_type, mr_id, detailed_type, context_info>>
    /\ UNCHANGED <<glab_calls, mr_info, diff_content, all_messages, final_review,
                   output_content, written_to, steps, exit_status>>
    /\ UNCHANGED <<diffVars, parseVars>>

\* reviewer.py:20-21
RunReviewDetermineContext ==
    /\ entry = "run_review" /\ pc = "start"
    /\ LET r == determine_review_context(args, env)
       IN  context_type' = r[1] /\ mr_id' = r[2]
    /\ steps' = Append(steps, "context")
    /\ pc' = "detailed"
    /\ UNCHANGED <<entry, args, env, detailed_type, context_info, output_format>>
    /\ UNCHANGED <<glab_calls, mr_info, diff_content, all_messages, final_review,
                   output_content, written_to, printed, exit_status>>
    /\ UNCHANGED <<diffVars, parseVars>>

\* reviewer.py:22-27
RunReviewDetailedContext ==
    /\ entry = "run_review" /\ pc = "detailed"
    /\ LET r == get_detailed_context_info(context_type, mr_id, detect_context(env))
       IN  detailed_type' = r[1] /\ context_info' = r[2]
    /\ pc' = "format"
    /\ UNCHANGED <<entry, args, env, context_type, mr_id, output_format>>
    /\ UNCHANGED <<mainVars, diffVars, parseVars>>

\* reviewer.py:29-34
RunReviewResolveFormat ==
    /\ entry = "run_review" /\ pc = "format"
    /\ output_format' = resolve_output_format(args.format, detect_context(env))
    /\ printed' = Append(printed, "Output format")
    /\ pc' = "prompt"
    /\ UNCHANGED <<entry, args, env, context_type, mr_id, detailed_type, context_info>>
    /\ UNCHANGED <<glab_calls, mr_info, diff_content, all_messages, final_review,
                   output_content, written_to, steps, exit_status>>
    /\ UNCHANGED <<diffVars, parseVars>>

NextContext ==
    \/ MainDetermineContext
    \/ MainResolveFormat
    \/ RunReviewDetermineContext
    \/ RunReviewDetailedContext
    \/ RunReviewResolveFormat

IdleMain ==
    /\ glab_calls = <<>> /\ mr_info = NONE /\ diff_content = UnsetPieces
    /\ all_messages = <<>> /\ final_review = UnsetText /\ output_content = NONE
    /\ written_to = NONE /\ steps = <<>> /\ printed = <<>> /\ exit_status = NONE
IdleDiff  == git = NONE /\ gd = UnsetResult
IdleParse == review_text = UnsetText /\ findings = UnsetFindings

InitRun(A, E) ==
    /\ entry \in Entries /\ args \in A /\ env \in E
    /\ pc = "start"
    /\ context_type = NONE /\ mr_id = NONE /\ detailed_type = NONE
    /\ context_info = NONE /\ output_format = NONE
    /\ IdleMain /\ IdleDiff /\ IdleParse

InitContext == InitRun(ArgsSet, EnvSet)

SpecContext == InitContext /\ [][NextContext]_vars

(***************************************************************************)
(* Diff gathering, the agent and the output.                                *)
(***************************************************************************)
\* What one glab invocation does: the binary is not found (FileNotFoundError),
\* it exits non-zero (CalledProcessError under check=True) or it exits zero.
GlabOutcomes == {"missing", "nonzero", "ok"}
GlabCall(cmd, outcome) == [cmd |-> cmd, outcome |-> outcome]

\* get_mr_info (main.py:73-97), called at main.py:235-236.  `first` is the
\* outcome of `glab mr view --output json`, `json_ok` whether its stdout
\* parses, `second` the outcome of the fallback `glab mr view`.
GetMrInfo ==
    /\ entry = "main" /\ pc = "gather" /\ context_type = "mr"
    /\ steps' = Append(steps, "diff")
    /\ \E first \in GlabOutcomes, json_ok \in BOOLEAN, second \in GlabOutcomes :
         LET call1 == GlabCall("mr view --output json", first)
             call2 == GlabCall("mr view", second)
         IN  \/ /\ first = "nonzero"
                /\ glab_calls' = Append(glab_calls, call1)
                /\ Exit("exit 1", "Error fetching MR info: <stderr>")
                /\ UNCHANGED mr_info
             \/ /\ first = "ok" /\ json_ok
                /\ glab_calls' = Append(glab_calls, call1)
                /\ \E title \in {NONE, "Fix login"} : mr_info' = [title |-> title]
                /\ pc' = "get_mr_diff"
                /\ UNCHANGED <<printed, exit_status>>
             \/ /\ first = "missing" \/ (first = "ok" /\ ~json_ok)
                /\ glab_calls' = glab_calls \o <<call1, call2>>
                /\ \/ /\ second = "ok"
                      /\ mr_info' = [title |-> "MR Info"]
                      /\ pc' = "get_mr_diff"
                      /\ UNCHANGED <<printed, exit_status>>
                   \/ /\ second = "nonzero"
                      /\ mr_info' = [title |-> "Merge Request <mr_id>"]
                      /\ pc' = "get_mr_diff"
                      /\ UNCHANGED <<printed, exit_status>>
                   \/ /\ second = "missing"
                      \* FileNotFoundError leaves get_mr_info and main() uncaught.
                      /\ Exit("unhandled exception", "")
                      /\ UNCHANGED mr_info
    /\ UNCHANGED <<entry, args, env, context_type, mr_id, detailed_type, context_info,
                   output_format>>
    /\ UNCHANGED <<diff_content, all_messages, final_review, output_content, written_to>>
    /\ UNCHANGED <<diffVars, parseVars>>

\* get_mr_diff (main.py:56-71), called at main.py:238-240.
GetMrDiff ==
    /\ entry = "main" /\ pc = "get_mr_diff"
    /\ \E outcome \in GlabOutcomes :
         /\ glab_calls' = Append(glab_calls, GlabCall("mr diff", outcome))
         /\ \/ /\ outcome = "ok"
               /\ diff_content' \in {<<"">>, <<"diff --git a/x b/x">>}
               /\ pc' = "check"
               /\ UNCHANGED <<printed, exit_status>>
            \/ /\ outcome = "nonzero"
               /\ Exit("exit 1", "Error fetching MR diff: <stderr>")
               /\ UNCHANGED diff_content
            \/ /\ outcome = "missing"
               /\ Exit("exit 1", "Error: glab CLI not found. Please install GitLab CLI (glab)")
               /\ UNCHANGED diff_content
    /\ UNCHANGED <<entry, args, env, context_type, mr_id, detailed_type, context_info,
                   output_format>>
    /\ UNCHANGED <<mr_info, all_messages, final_review, output_content, written_to, steps>>
    /\ UNCHANGED <<diffVars, parseVars>>

\* main.py:241-244
GetLocalDiff ==
    /\ entry = "main" /\ pc = "gather" /\ context_type # "mr"
    /\ steps' = Append(steps, "diff")
    /\ \E g \in MainGitWorlds :
         LET r == get_local_git_diff(g)
         IN  \/ /\ r.status = "returned"
                /\ diff_content' = r.diff_content
                /\ pc' = "check"
                /\ UNCHANGED <<printed, exit_status>>
             \/ /\ r.status = "exit 1"
                /\ Exit("exit 1", "Error fetching local git diff: <exception>")
                /\ UNCHANGED diff_content
    /\ UNCHANGED <<entry, args, env, context_type, mr_id, detailed_type, context_info,
                   output_format>>
    /\ UNCHANGED <<glab_calls, mr_info, all_messages, final_review, output_content,
                   written_to>>
    /\ UNCHANGED <<diffVars, parseVars>>

\* main.py:246-248
NothingToReview ==
    /\ entry = "main" /\ pc = "check"
    /\ Blank(diff_content)
    /\ Exit("exit 0", "No changes found to review.")
    /\ UNCHANGED <<entry, args, env, context_type, mr_id, detailed_type, context_info,
                   output_format>>
    /\ UNCHANGED <<glab_calls, mr_info, diff_content, all_messages, final_review,
                   output_content, written_to, steps>>
    /\ UNCHANGED <<diffVars, parseVars>>

\* Mutant: the prompt is built whether or not the diff is blank.
BuildPrompt_EvenIfBlank ==
    /\ entry = "main" /\ pc = "check"
    /\ steps' = Append(steps, "prompt")
    /\ printed' = Append(printed, "STARTING CODE REVIEW")
    /\ pc' = "query"
    /\ UNCHANGED <<entry, args, env, context_type, mr_id, detailed_type, context_info,
                   output_format>>
    /\ UNCHANGED <<glab_calls, mr_info, diff_content, all_messages, final_review,
                   output_content, written_to, exit_status>>
    /\ UNCHANGED <<diffVars, parseVars>>

\* main.py:250-258
BuildPrompt ==
    /\ entry = "main" /\ pc = "check"
    /\ ~Blank(diff_content)
    /\ steps' = Append(steps, "prompt")
    /\ printed' = Append(printed, "STARTING CODE REVIEW")
    /\ pc' = "query"
    /\ UNCHANGED <<entry, args, env, context_type, mr_id, detailed_type, context_info,
                   output_format>>
    /\ UNCHANGED <<glab_calls, mr_info, diff_content, all_messages, final_review,
                   output_content, written_to, exit_status>>
    /\ UNCHANGED <<diffVars, parseVars>>

\* main.py:261-262: query() is called and the iteration starts.
InvokeAgent ==
    /\ entry = "main" /\ pc = "query"
    /\ steps' = Append(steps, "agent")
    /\ all_messages' = <<>>
    /\ pc' = "streaming"
    /\ UNCHANGED <<entry, args, env, context_type, mr_id, detailed_type, context_info,
                   output_format>>
    /\ UNCHANGED <<glab_calls, mr_info, diff_content, final_review, output_content,
                   written_to, printed, exit_status>>
    /\ UNCHANGED <<diffVars, parseVars>>

\* main.py:262-263: one message of the stream.
ReceiveMessage(alphabet, max) ==
    /\ pc = "streaming"
    /\ Len(all_messages) < max
    /\ \E message \in alphabet : all_messages' = Append(all_messages, message)
    /\ UNCHANGED ctxVars
    /\ UNCHANGED <<glab_calls, mr_info, diff_content, final_review, output_content,
                   written_to, steps, printed, exit_status>>
    /\ UNCHANGED <<diffVars, parseVars>>

\* main.py:265-276: the stream has ended; the final review is extracted.
ExtractFinalReview ==
    /\ pc = "streaming"
    /\ final_review' = FinalReview(all_messages)
    /\ steps' = Append(steps, "format")
    /\ pc' = "format_output"
    /\ UNCHANGED <<entry, args, env, context_type, mr_id, detailed_type, context_info,
                   output_format>>
    /\ UNCHANGED <<glab_calls, mr_info, diff_content, all_messages, output_content,
                   written_to, printed, exit_status>>
    /\ UNCHANGED <<diffVars, parseVars>>

\* main.py:278-284; json.dumps keeps the findings as they are.
FormatOutput ==
    /\ entry = "main" /\ pc = "format_output"
    /\ output_content' =
         IF output_format = "text"
         THEN [format |-> "text", body |-> final_review]
         ELSE [format |-> "json", body |-> parse_text_review_to_gitlab_json(final_review)]
    /\ pc' = "write"
    /\ UNCHANGED <<entry, args, env, context_type, mr_id, detailed_type, context_info,
                   output_format>>
    /\ UNCHANGED <<glab_calls, mr_info, diff_content, all_messages, final_review,
                   written_to, steps, printed, exit_status>>
    /\ UNCHANGED <<diffVars, parseVars>>

\* main.py:286-292 and reviewer.py:61-67; main() then returns.
WriteOutput ==
    /\ pc = "write"
    /\ steps' = Append(steps, "output")
    /\ written_to' = IF Truthy(args.output) THEN args.output ELSE "stdout"
    /\ Exit("exit 0", IF Truthy(args.output) THEN "Review output written to: <path>"
                      ELSE "<output_content>")
    /\ UNCHANGED <<entry, args, env, context_type, mr_id, detailed_type, context_info,
                   output_format>>
    /\ UNCHANGED <<glab_calls, mr_info, diff_content, all_messages, final_review,
                   output_content>>
    /\ UNCHANGED <<diffVars, parseVars>>

\* reviewer.py:36-48: no diff is gathered; the prompt carries git commands
\* for the agent to run.
RunReviewPrompt ==
    /\ entry = "run_review" /\ pc = "prompt"
    /\ steps' = Append(steps, "prompt")
    /\ printed' = Append(printed, "STARTING CODE REVIEW")
    /\ pc' = "query"
    /\ UNCHANGED <<entry, args, env, context_type, mr_id, detailed_type, context_info,
                   output_format>>
    /\ UNCHANGED <<glab_calls, mr_info, diff_content, all_messages, final_review,
                   output_content, written_to, exit_status>>
    /\ UNCHANGED <<diffVars, parseVars>>

\* reviewer.py:49: run_code_review is awaited and returns the messages.
RunReviewRunCodeReview ==
    /\ entry = "run_review" /\ pc = "query"
    /\ steps' = Append(steps, "agent")
    /\ all_messages' \in SeqsUpTo(MainMessages, MaxMainMessages)
    /\ pc' = "collected"
    /\ UNCHANGED <<entry, args, env, context_type, mr_id, detailed_type, context_info,
                   output_format>>
    /\ UNCHANGED <<glab_calls, mr_info, diff_content, final_review, output_content,
                   written_to, printed, exit_status>>
    /\ UNCHANGED <<diffVars, parseVars>>

\* reviewer.py:51-59.  extract_final_assistant_message and
\* validate_and_format_json are not among the sources: their results are
\* any text and any document.
RunReviewFormat ==
    /\ entry = "run_review" /\ pc = "collected"
    /\ steps' = Append(steps, "format")
    /\ \E text \in Texts :
         /\ final_review' = text
         /\ output_content' = IF output_format = "text"
                              THEN [format |-> "text", body |-> text]
                              ELSE [format |-> "json", body |-> <<>>]
    /\ pc' = "write"
    /\ UNCHANGED <<entry, args, env, context_type, mr_id, detailed_type, context_info,
                   output_format>>
    /\ UNCHANGED <<glab_calls, mr_info, diff_content, all_messages, written_to,
                   printed, exit_status>>
    /\ UNCHANGED <<diffVars, parseVars>>

NextMain ==
    \/ NextContext
    \/ GetMrInfo
    \/ GetMrDiff
    \/ GetLocalDiff
    \/ NothingToReview
    \/ BuildPrompt
    \/ InvokeAgent
    \/ ReceiveMessage(MainMessages, MaxMainMessages)
    \/ ExtractFinalReview
    \/ FormatOutput
    \/ WriteOutput
    \/ RunReviewPrompt
    \/ RunReviewRunCodeReview
    \/ RunReviewFormat

\* The runs of the whole pipeline take their flags and variables from the
\* values that decide a branch.
MainArgsSet == {a \in ArgsSet : a.mr_id # ""}
MainEnvSet  == {e \in EnvSet : e.CI # "" /\ e.CI_PIPELINE_SOURCE # "push"
                               /\ e.CI_MERGE_REQUEST_ID # ""}

InitMain == InitRun(MainArgsSet, MainEnvSet)

SpecMain == InitMain /\ [][NextMain]_vars

(***************************************************************************)
(* The functions on their own, each applied to every input of its set.      *)
(***************************************************************************)
IdleRun(at) ==
    /\ entry = NONE /\ args = NONE /\ env = NONE /\ pc = at
    /\ context_type = NONE /\ mr_id = NONE /\ detailed_type = NONE
    /\ context_info = NONE /\ output_format = NONE

\* get_local_git_diff (main.py:99-161) in one git world.
GetLocalGitDiff ==
    /\ pc = "get_local_git_diff"
    /\ gd' = get_local_git_diff(git)
    /\ pc' = "done"
    /\ UNCHANGED <<entry, args, env, context_type, mr_id, detailed_type, context_info,
                   output_format>>
    /\ UNCHANGED <<mainVars, git, parseVars>>

InitDiff ==
    /\ IdleRun("get_local_git_diff") /\ IdleMain /\ IdleParse
    /\ git \in GitWorlds /\ gd = UnsetResult

NextDiff == GetLocalGitDiff

SpecDiff == InitDiff /\ [][NextDiff]_vars

\* The stream of main.py:261-276 over every kind of message.
InitExtract ==
    /\ IdleRun("streaming") /\ IdleDiff /\ IdleParse
    /\ glab_calls = <<>> /\ mr_info = NONE /\ diff_content = UnsetPieces
    /\ all_messages = <<>> /\ final_review = UnsetText /\ output_content = NONE
    /\ written_to = NONE /\ steps = <<>> /\ printed = <<>> /\ exit_status = NONE

NextExtract ==
    \/ ReceiveMessage(Messages, MaxMessages)
    \/ ExtractFinalReview

SpecExtract == InitExtract /\ [][NextExtract]_vars

\* parse_text_review_to_gitlab_json (main.py:177-216) on a review text.
ParseReview ==
    /\ pc = "parse"
    /\ findings' = parse_text_review_to_gitlab_json(review_text)
    /\ pc' = "done"
    /\ UNCHANGED <<entry, args, env, context_type, mr_id, detailed_type, context_info,
                   output_format>>
    /\ UNCHANGED <<mainVars, diffVars, review_text>>

Paths        == {"a.py", "b.py"}
Descriptions == {"Unsanitised input", "Unused variable"}
MissingLines == {"", "H", "F", "C", "D", "R", "K"}
TitleOf(sev) == "A " \o sev \o " issue"

RECURSIVE Concat(_)
Concat(seqs) == IF seqs = <<>> THEN <<>> ELSE seqs[1] \o Concat(Tail(seqs))

\* The text without the white space at its end, as str.strip() or a model
\* that ends its answer with the last word leaves it: the empty lines at
\* the end go and the last line is not ended by a newline.
StripEnd(text) ==
    LET kept == DropTrailingBlank(text)
    IN  IF kept = <<>> THEN kept
        ELSE [kept EXCEPT ![Len(kept)] = [@ EXCEPT !.nl = FALSE]]

\* A block of any severity at one of two places, whole or with one line missing.
Places == {<<"a.py", "1">>, <<"b.py", "2">>}
AnyBlocks ==
    {Block(sev, TitleOf(sev), place[1], place[2], "Unsanitised input", missing) :
        sev \in SeverityTokens, place \in Places, missing \in MissingLines}

\* A whole block of the given severity.
WholeBlocks(sev) ==
    {Block(sev, TitleOf(sev), path, line, desc, "") :
        path \in Paths, line \in LineNumbers, desc \in Descriptions}

SeverityOrders ==
    {o \in [1..Cardinality(SeverityTokens) -> SeverityTokens] :
        \A x, y \in DOMAIN o : x # y => o[x] # o[y]}

\* The review texts: up to MaxBlocks blocks of any kind, or one whole block of
\* each severity token in any order; each text as it is and stripped at its end.
InitParse ==
    /\ IdleRun("parse") /\ IdleMain /\ IdleDiff
    /\ \/ \E n \in 0..MaxBlocks : \E bs \in [1..n -> AnyBlocks] :
            review_text \in {Concat(bs), StripEnd(Concat(bs))}
       \/ \E o \in SeverityOrders :
            \E b1 \in WholeBlocks(o[1]), b2 \in WholeBlocks(o[2]),
               b3 \in WholeBlocks(o[3]), b4 \in WholeBlocks(o[4]) :
                 review_text \in {Concat(<<b1, b2, b3, b4>>),
                                  StripEnd(Concat(<<b1, b2, b3, b4>>))}
    /\ findings = UnsetFindings

NextParse == ParseReview

SpecParse == InitParse /\ [][NextParse]_vars

(***************************************************************************)
(* Properties.                                                              *)
(***************************************************************************)
Range(f) == {f[x] : x \in DOMAIN f}
IsPrefix(p, q) == Len(p) <= Len(q) /\ \A x \in 1..Len(p) : p[x] = q[x]

\* ---- Context precedence ------------------------------------------------
CiMr == /\ env.CI_PIPELINE_SOURCE = "merge_request_event"
        /\ env.CI_MERGE_REQUEST_ID # NONE /\ env.CI_MERGE_REQUEST_ID # ""

Precedence(mr_id_given) ==
    /\ args.local => <<context_type, mr_id>> = <<"local", NONE>>
    /\ ~args.local /\ CiMr => <<context_type, mr_id>> = <<"mr", env.CI_MERGE_REQUEST_ID>>
    /\ ~args.local /\ ~CiMr /\ mr_id_given => <<context_type, mr_id>> = <<"mr", args.mr_id>>
    /\ ~args.local /\ ~CiMr /\ ~mr_id_given => <<context_type, mr_id>> = <<"local", NONE>>

\* C1, as stated: determine_review_context returns (local, none) under
\* --local, else the CI merge request when the pipeline is a merge request
\* event with a non-empty id, else (mr, --mr-id) whenever --mr-id is given,
\* else (local, none).
C1_PrecedenceAsStated ==
    context_type # NONE => Precedence(args.mr_id # NONE)

\* C1, amended: the same precedence, --mr-id counting as given only with a
\* non-empty value (an empty --mr-id resolves as if it were absent); the call
\* never raises.
C1_Precedence ==
    context_type # NONE =>
        /\ Precedence(args.mr_id # NONE /\ args.mr_id # "")
        /\ exit_status = NONE

\* Both an explicit --mr-id and a CI merge request: the CI one is returned.
C1_Witness ==
    /\ ~args.local /\ args.mr_id = "7" /\ CiMr
    /\ context_type = "mr" /\ mr_id = "42"

\* ---- Output format -----------------------------------------------------
\* C8, as stated: auto becomes gitlab-json when CI is set and text
\* otherwise, whatever the other flags and variables are; text and
\* gitlab-json are kept.
C8_FormatAsStated ==
    output_format # NONE =>
        output_format = IF args.format = "auto"
                        THEN (IF env.CI # NONE THEN "gitlab-json" ELSE "text")
                        ELSE args.format

\* C8, amended: auto becomes gitlab-json when CI is set to a non-empty value
\* and text otherwise (CI unset or set to the empty string), whatever the
\* other flags and variables are; text and gitlab-json are kept.
C8_Format ==
    output_format # NONE =>
        output_format = IF args.format = "auto"
                        THEN (IF env.CI # NONE /\ env.CI # "" THEN "gitlab-json" ELSE "text")
                        ELSE args.format

\* auto under CI, with --local and outside a merge request pipeline.
C8_Witness ==
    /\ args.format = "auto" /\ env.CI = "true" /\ args.local
    /\ env.CI_PIPELINE_SOURCE = "push" /\ args.output = "out.json"
    /\ output_format = "gitlab-json"

\* ---- Detailed context --------------------------------------------------
\* C10: when run_review resolves an MR type (mr_local or mr_ci) the mr_id in
\* context_info is non-empty and is the id determine_review_context returned,
\* and the detailed type is local exactly when determine_review_context
\* returned local.
C10_MrIdKept ==
    detailed_type # NONE =>
        /\ detailed_type \in {"mr_local", "mr_ci"} =>
              /\ context_info.mr_id # NONE /\ context_info.mr_id # ""
              /\ context_info.mr_id = mr_id
        /\ detailed_type = "local" <=> context_type = "local"

\* ---- Failing glab ------------------------------------------------------
ErrorMessages ==
    {"Error fetching MR info: <stderr>", "Error fetching MR diff: <stderr>",
     "Error: glab CLI not found. Please install GitLab CLI (glab)"}

GlabFailed == \E x \in DOMAIN glab_calls : glab_calls[x].outcome \in {"missing", "nonzero"}

\* C4: in an MR context, once glab is missing or an invocation of it (the
\* metadata query, its fallback query or the diff fetch) exits non-zero, the
\* run prints an error and exits with status 1 through sys.exit, and the
\* agent is never invoked.
C4_GlabFailureFatal ==
    GlabFailed =>
        /\ exit_status = "exit 1"
        /\ printed # <<>> /\ printed[Len(printed)] \in ErrorMessages
        /\ "agent" \notin Range(steps)

\* ---- Order of the steps ------------------------------------------------
MainOrder      == <<"context", "diff", "prompt", "agent", "format", "output">>
RunReviewOrder == <<"context", "prompt", "agent", "format", "output">>

Gathered == diff_content # UnsetPieces

OrderOfMain ==
    /\ IsPrefix(steps, MainOrder)
    /\ "agent" \in Range(steps) => Gathered /\ ~Blank(diff_content)
    /\ written_to # NONE => "agent" \in Range(steps) /\ pc # "streaming"
                            /\ final_review # UnsetText
    /\ (Gathered /\ Blank(diff_content) /\ pc = "done") =>
          /\ exit_status = "exit 0"
          /\ printed[Len(printed)] = "No changes found to review."
          /\ "agent" \notin Range(steps)
          /\ written_to = NONE

\* C6, as stated: in every run the steps come in the order context, diff
\* gathering, prompt, agent, formatting, output; the agent is invoked only
\* after the diff was gathered and is not blank; output is written only after
\* the stream was consumed; a blank diff ends the run with status 0 and the
\* "nothing to review" line, with no agent and no output.
C6_OrderAsStated == OrderOfMain

\* C6, amended: that holds in every run of main() (main.py); a run of
\* run_review (reviewer.py) gathers no diff at all: its steps come in the
\* order context, prompt, agent, formatting, output, the agent is invoked
\* whatever the working tree holds, and output is written only after the
\* agent's messages were collected.
C6_Order ==
    /\ entry = "main" => OrderOfMain
    /\ entry = "run_review" =>
          /\ IsPrefix(steps, RunReviewOrder)
          /\ ~Gathered
          /\ written_to # NONE => "agent" \in Range(steps) /\ final_review # UnsetText

\* A run of main() that went through every step to its output.
C6_Witness ==
    /\ entry = "main" /\ steps = MainOrder /\ exit_status = "exit 0"
    /\ Len(all_messages) = MaxMainMessages /\ written_to = "out.json"

\* ---- The final review --------------------------------------------------
\* A message has textual content: it is a non-empty string, or one of its
\* blocks carries a non-empty text.
HasTextualContent(m) ==
    \/ m.kind = "str" /\ m.text # <<>>
    \/ m.kind = "content"
       /\ \E b \in DOMAIN m.content : m.content[b].has_text /\ m.content[b].text # <<>>

\* The texts a message carries.
TextsOf(m) ==
    IF m.kind = "str" THEN {m.text}
    ELSE {m.content[b].text : b \in {c \in DOMAIN m.content : m.content[c].has_text}}

LastWhere(P(_)) ==
    IF \E x \in DOMAIN all_messages : P(all_messages[x])
    THEN CHOOSE x \in DOMAIN all_messages :
            /\ P(all_messages[x])
            /\ \A y \in DOMAIN all_messages : y > x => ~P(all_messages[y])
    ELSE 0

\* C5, as stated: the final review is the text of the last message that has
\* textual content, and is empty only when no message has any.
C5_LastTextualAsStated ==
    final_review # UnsetText =>
        LET last == LastWhere(HasTextualContent)
        IN  IF last = 0 THEN final_review = <<>>
            ELSE final_review \in TextsOf(all_messages[last]) /\ final_review # <<>>

\* ---- The local diff ----------------------------------------------------
\* C3: when get_local_git_diff returns, with the staged diff, the unstaged
\* diff and the untracked listing all empty its result is the last-commit
\* diff, or "" when that is empty too; with one of the three non-empty the
\* last-commit diff is not run and the result is not empty.
C3_FallbackToLastCommit ==
    gd.status = "returned" =>
        LET all_empty == git.staged = "" /\ git.unstaged = "" /\ git.untracked = <<>>
        IN  /\ all_empty =>
                gd.diff_content = IF git.last_commit = "" THEN <<>>
                                  ELSE <<"# Last Commit Changes\n", git.last_commit>>
            /\ ~all_empty =>
                /\ "git diff HEAD~1..HEAD" \notin Range(gd.commands)
                /\ \E x \in DOMAIN gd.diff_content : gd.diff_content[x] # ""

\* The "New File" section the claim expects for one listed file.
ExpectedSection(f) ==
    <<"\n## New File: ", f.name, "\n">>
    \o (IF f.read = "ok" THEN <<Fence, "\n", FileText(f.name), "\n", Fence, "\n">>
        ELSE <<"[Binary file or unable to read: ", f.name, "]\n">>)

\* C7: for a non-empty listing of untracked files get_local_git_diff returns
\* and its result ends in one "New File" section per listed file, in listing
\* order, each with the file's text or, for a file that cannot be read, the
\* placeholder; no read failure is fatal.
C7_OneSectionPerFile ==
    (gd.status # "unset" /\ git.installed /\ git.untracked # <<>>) =>
        /\ gd.status = "returned"
        /\ LET expected == Concat([x \in DOMAIN git.untracked |->
                                      ExpectedSection(git.untracked[x])])
               n == Len(gd.diff_content)
           IN  /\ n > Len(expected)
               /\ SubSeq(gd.diff_content, n - Len(expected) + 1, n) = expected
               /\ gd.diff_content[n - Len(expected)] = "# Untracked Files (New Files Added)\n"

\* ---- The findings parser -----------------------------------------------
\* The blocks of a review text: each runs up to an empty line.
RECURSIVE SplitBlocks(_, _)
SplitBlocks(lines, current) ==
    IF lines = <<>> THEN (IF current = <<>> THEN <<>> ELSE <<current>>)
    ELSE IF lines[1] = BlankLine
         THEN (IF current = <<>> THEN <<>> ELSE <<current>>) \o SplitBlocks(Tail(lines), <<>>)
    ELSE SplitBlocks(Tail(lines), Append(current, lines[1]))

WellFormed(b) ==
    /\ Len(b) = 6
    /\ [x \in 1..6 |-> b[x].k] = <<"H", "F", "C", "D", "R", "K">>
    /\ b[1].v[1] \in SeverityTokens

BlockSeverity(b)    == b[1].v[1]
BlockPath(b)        == b[2].v[1]
BlockLine(b)        == b[2].v[2]
BlockDescription(b) == b[4].v[1]

DocumentedSeverity(token) ==
    CASE token = "CRITICAL"   -> "blocker"
      [] token = "MAJOR"      -> "major"
      [] token = "MINOR"      -> "minor"
      [] token = "SUGGESTION" -> "info"

FindingOf(f, b) ==
    /\ f.severity = DocumentedSeverity(BlockSeverity(b))
    /\ f.location.path = Plain(BlockPath(b))
    /\ f.location.lines.begin = IntOf(BlockLine(b))

\* C2: the findings are exactly those of the well-formed blocks of the text,
\* one a block and in order, each with its block's severity, path and line; a
\* block with a line missing yields none, wherever it stands.
C2_MalformedBlocksDropped ==
    findings # UnsetFindings =>
        LET whole == SelectSeq(SplitBlocks(review_text, <<>>), WellFormed)
        IN  /\ Len(findings) = Len(whole)
            /\ \A x \in 1..Len(whole) : FindingOf(findings[x], whole[x])

\* One well-formed block of each severity token and nothing else.
OneOfEachSeverity(blocks) ==
    /\ Len(blocks) = Cardinality(SeverityTokens)
    /\ \A x \in DOMAIN blocks : WellFormed(blocks[x])
    /\ {BlockSeverity(blocks[x]) : x \in DOMAIN blocks} = SeverityTokens

\* C9: a text of one well-formed block of each severity token, in any order,
\* parses into four findings in block order, CRITICAL as blocker, MAJOR as
\* major, MINOR as minor, SUGGESTION as info, each with its block's path and
\* line and a non-empty fingerprint; blocks with the same path, line and
\* description get the same fingerprint.
C9_FourSeverities ==
    LET blocks == SplitBlocks(review_text, <<>>)
    IN  (findings # UnsetFindings /\ OneOfEachSeverity(blocks)) =>
            /\ Len(findings) = 4
            /\ \A x \in 1..4 :
                  /\ FindingOf(findings[x], blocks[x])
                  /\ findings[x].fingerprint.digits > 0
            /\ \A x, y \in 1..4 :
                  (/\ BlockPath(blocks[x]) = BlockPath(blocks[y])
                   /\ BlockLine(blocks[x]) = BlockLine(blocks[y])
                   /\ BlockDescription(blocks[x]) = BlockDescription(blocks[y]))
                  => findings[x].fingerprint = findings[y].fingerprint

====
